---- MODULE Spec2Model ----
(***************************************************************************)
(* Position reconciliation pipeline of backend/functions/helpers.py:       *)
(* contract identifiers, FX conversion to EUR, per-contract aggregation    *)
(* and the desk/clearing comparison.                                       *)
(*                                                                         *)
(* Conventions of the model                                                *)
(*  - a Python str is a sequence of one-character strings;                 *)
(*  - a float/int cell is a rational [n, d] in lowest terms with d > 0;    *)
(*    d = 0 encodes the IEEE specials: [0,0] NaN, [1,0] +inf, [-1,0] -inf; *)
(*    float rounding is not modelled (arithmetic is exact);                *)
(*  - a missing text cell (pandas NaN in an object column) is NaNText;     *)
(*  - a raw table is a sequence of rows (CSV order); a grouped table and   *)
(*    the comparison table are sets of rows (their row order is not        *)
(*    modelled);                                                           *)
(*  - the column `multiplier` is coerced by the code and never read again: *)
(*    it is left out of the rows.                                          *)
(***************************************************************************)
EXTENDS Integers, Sequences, FiniteSets, TLC

VARIABLES
    pc,                     \* position of the run: which helper ran last
    err,                    \* name of the Python exception that ended the run
    yf_data,                \* the provider's series per ticker (yfinance)
    raw_trades_desk,        \* dfs.raw_trades_desk
    position_clearing_raw,  \* dfs.position_clearing_raw
    mapping_symbol_raw,     \* dfs.mapping_symbol_raw
    mapping_exchange_rate,  \* local of the normalizer that ran last
    position_desk,          \* dfs.position_desk
    position_clearing,      \* dfs.position_clearing
    position_compared       \* dfs.position_compared

vars == <<pc, err, yf_data, raw_trades_desk, position_clearing_raw,
          mapping_symbol_raw, mapping_exchange_rate, position_desk,
          position_clearing, position_compared>>

----------------------------------------------------------------------------
(* Numbers *)

Abs(i) == IF i < 0 THEN -i ELSE i

Sgn(i) == IF i < 0 THEN -1 ELSE IF i > 0 THEN 1 ELSE 0

RECURSIVE GCD(_, _)
GCD(a, b) == IF b = 0 THEN a ELSE GCD(b, a % b)

\* n/d in lowest terms; a zero denominator gives NaN or a signed infinity.
RatNorm(n, d) ==
    IF d = 0 THEN [n |-> Sgn(n), d |-> 0]
    ELSE LET g == GCD(Abs(n), Abs(d))
             s == Sgn(n) * Sgn(d)
         IN  [n |-> s * (Abs(n) \div g), d |-> Abs(d) \div g]

Num(i) == [n |-> i, d |-> 1]

NaN == [n |-> 0, d |-> 0]

IsNaN(x) == x = NaN

IsIntegral(x) == x.d = 1

\* float + float
RatAdd(a, b) ==
    IF a.d # 0 /\ b.d # 0 THEN RatNorm(a.n * b.d + b.n * a.d, a.d * b.d)
    ELSE IF IsNaN(a) \/ IsNaN(b) THEN NaN
    ELSE IF a.d # 0 THEN b
    ELSE IF b.d # 0 THEN a
    ELSE IF a.n = b.n THEN a ELSE NaN

\* float * float
RatMul(a, b) == RatNorm(a.n * b.n, a.d * b.d)

\* float / float (numpy: x/0 is +-inf, 0/0 is nan, no exception)
RatDiv(a, b) == RatNorm(a.n * b.d, a.d * b.n)

----------------------------------------------------------------------------
(* Text *)

NaNText == <<"NaN-cell">>

IsText(s) == s # NaNText

UpperChars == <<"A","B","C","D","E","F","G","H","I","J","K","L","M",
                "N","O","P","Q","R","S","T","U","V","W","X","Y","Z">>

LowerChars == <<"a","b","c","d","e","f","g","h","i","j","k","l","m",
                "n","o","p","q","r","s","t","u","v","w","x","y","z">>

LowerChar(c) ==
    IF \E i \in 1..Len(UpperChars) : UpperChars[i] = c
    THEN LowerChars[CHOOSE i \in 1..Len(UpperChars) : UpperChars[i] = c]
    ELSE c

\* str.lower()
Lower(s) == [i \in 1..Len(s) |-> LowerChar(s[i])]

RECURSIVE Join(_, _)
\* sep.join(parts)
Join(sep, parts) ==
    IF parts = <<>> THEN <<>>
    ELSE IF Len(parts) = 1 THEN parts[1]
    ELSE parts[1] \o sep \o Join(sep, Tail(parts))

Digits == <<"0","1","2","3","4","5","6","7","8","9">>

RECURSIVE StrNat(_)
StrNat(n) == IF n < 10 THEN <<Digits[n + 1]>>
             ELSE StrNat(n \div 10) \o <<Digits[(n % 10) + 1]>>

\* str(int)
StrInt(i) == IF i < 0 THEN <<"-">> \o StrNat(-i) ELSE StrNat(i)

RECURSIVE Pad(_, _)
\* zero-padded decimal of width w, as %Y, %m, %d print it
Pad(s, w) == IF Len(s) >= w THEN s ELSE Pad(<<"0">> \o s, w)

\* str(float) of nan and of a float with an integral value (100.0)
StrFloat(x) ==
    CASE IsNaN(x)      -> <<"n","a","n">>
      [] IsIntegral(x) -> StrInt(x.n) \o <<".","0">>

\* str() of a cell of a numeric column: the cell is a Python int when the
\* column is int64 and a Python float when it is float64
StrCell(x, is_int64) == IF is_int64 THEN StrInt(x.n) ELSE StrFloat(x)

\* dtype pandas gives a numeric column: int64 unless a cell is missing or
\* has a fractional part
IsInt64(col) == \A i \in 1..Len(col) : IsIntegral(col[i])

----------------------------------------------------------------------------
(* Dates *)

NaT == [y |-> 0, m |-> 0, d |-> 0, h |-> 0]

\* UTC offset of Europe/Amsterdam: CET +1, CEST +2 (April to October; the
\* switch days at the end of March and October are not modelled)
AmsterdamOffset(t) == IF t.m \in 4..10 THEN 2 ELSE 1

\* .dt.tz_localize('UTC').dt.tz_convert('Europe/Amsterdam'); a day that is
\* not the last of its month rolls over inside the month
TzConvertAmsterdam(t) ==
    IF t = NaT THEN NaT
    ELSE LET h == t.h + AmsterdamOffset(t)
         IN  IF h >= 24 THEN [t EXCEPT !.d = t.d + 1, !.h = h - 24]
             ELSE [t EXCEPT !.h = h]

\* Timestamp.strftime('%Y-%m-%d')
StrfDate(t) ==
    Pad(StrNat(t.y), 4) \o <<"-">> \o Pad(StrNat(t.m), 2) \o <<"-">>
        \o Pad(StrNat(t.d), 2)

----------------------------------------------------------------------------
(* Results of a call that may raise *)

Ok(v) == [ok |-> TRUE, value |-> v, exc |-> "none"]

Raise(e) == [ok |-> FALSE, value |-> <<>>, exc |-> e]

----------------------------------------------------------------------------
(* Contract Identifier Deriver *)

ST == <<"S","T">>

OP == <<"O","P">>

EUR == <<"E","U","R">>

\* The rows DataFrame.apply(axis=1) hands to its function: each cell is a
\* Python object of its column's dtype, so a strike is an int when the
\* whole strike column is int64 and a float otherwise.
ApplyRows(df) ==
    LET is_int64 == IsInt64([i \in 1..Len(df) |-> df[i].strike])
    IN  [i \in 1..Len(df) |->
            [df[i] EXCEPT !.strike = [v |-> @, is_int64 |-> is_int64]]]

\* _create_contract(row): the identifier, or the exception Python raises.
\* A missing text cell is a float, which has no .lower(); NaT refuses
\* strftime; with neither branch taken `contract` is unbound at the return.
_create_contract(row) ==
    IF row.product_type = ST
    THEN IF IsText(row.symbol) /\ IsText(row.currency)
         THEN Ok(Join(<<"_">>, <<Lower(row.symbol), Lower(row.currency)>>))
         ELSE Raise("AttributeError")
    ELSE IF row.product_type = OP
    THEN IF ~(IsText(row.symbol) /\ IsText(row.currency))
         THEN Raise("AttributeError")
         ELSE IF row.maturity_date = NaT THEN Raise("ValueError")
         ELSE IF ~IsText(row.put_call) THEN Raise("AttributeError")
         ELSE Ok(Join(<<"_">>,
                      <<Lower(row.symbol), Lower(row.currency),
                        StrfDate(row.maturity_date), Lower(row.put_call),
                        StrCell(row.strike.v, row.strike.is_int64)>>))
    ELSE Raise("UnboundLocalError")

\* df.apply(_create_contract, axis=1): the column of identifiers, or the
\* exception of the first row that raises
ApplyCreateContract(df) ==
    LET res  == [i \in 1..Len(df) |-> _create_contract(ApplyRows(df)[i])]
        fail == {i \in 1..Len(df) : ~res[i].ok}
    IN  IF fail = {}
        THEN Ok([i \in 1..Len(df) |-> res[i].value])
        ELSE Raise(res[CHOOSE i \in fail : \A j \in fail : i <= j].exc)

----------------------------------------------------------------------------
(* FX Rate Resolver *)

\* TARGET_DATE = '2021-12-29', as the day of December 2021
TARGET_DATE == 29

\* f'EUR{currency}=X'
Ticker(currency) == EUR \o currency \o <<"=","X">>

\* f'{currency}EUR'
CurrencyKey(currency) == currency \o EUR

\* yf.download(tickers, start, end): the rows of the provider's series with
\* start <= date < end; an unknown ticker or an unreachable provider gives
\* an empty frame
Download(ticker, start, end) ==
    IF ticker \in DOMAIN yf_data
    THEN SelectSeq(yf_data[ticker],
                   LAMBDA q : start <= q.date /\ q.date < end)
    ELSE <<>>

\* df['Close'].asof(date): the close of the last row at or before date
AsOf(df, date) ==
    LET at == {i \in 1..Len(df) : df[i].date <= date}
    IN  IF at = {} THEN NaN
        ELSE df[CHOOSE i \in at : \A j \in at : j <= i].close

RECURSIVE Unique(_)
\* Series.unique(): the distinct values in order of first appearance
Unique(col) ==
    IF col = <<>> THEN <<>>
    ELSE LET init == Unique(SubSeq(col, 1, Len(col) - 1))
             last == col[Len(col)]
         IN  IF \E i \in 1..Len(init) : init[i] = last THEN init
             ELSE Append(init, last)

\* One pass of the loop body for `currency`: the rate, or the
\* AttributeError of `None.values` when the downloaded frame is empty.
RateToEuro(currency) ==
    LET df == Download(Ticker(currency), TARGET_DATE, TARGET_DATE + 1)
    IN  IF df = <<>> THEN Raise("AttributeError")
        ELSE Ok(AsOf(df, TARGET_DATE))

RECURSIVE ResolveLoop(_, _)
ResolveLoop(currencies, mapping_rates) ==
    IF currencies = <<>> THEN Ok(mapping_rates)
    ELSE LET rate == RateToEuro(Head(currencies))
         IN  IF ~rate.ok THEN Raise(rate.exc)
             ELSE ResolveLoop(Tail(currencies),
                              (CurrencyKey(Head(currencies)) :> rate.value)
                                  @@ mapping_rates)

\* _get_exchange_rate_to_eur(date, col_currency)
_get_exchange_rate_to_eur(col_currency) ==
    ResolveLoop(Unique(col_currency), <<>>)

----------------------------------------------------------------------------
(* Position Normalizer *)

\* pd.to_datetime, tz_localize('UTC'), tz_convert('Europe/Amsterdam') of
\* maturity_date. The numeric columns hold numbers or missing cells after
\* read_csv, which pd.to_numeric(errors='coerce') leaves as they are.
ConvertColumnTypes(df) ==
    [i \in 1..Len(df) |->
        [df[i] EXCEPT !.maturity_date = TzConvertAmsterdam(@)]]

\* dict.get(key, default)
DictGet(mapping, key, default) ==
    IF key \in DOMAIN mapping THEN mapping[key] ELSE default

\* PriceEur with the price multiplied by the rate
PriceEurTimes(row, mapping) ==
    IF row.currency = EUR THEN row.price
    ELSE RatMul(row.price,
                DictGet(mapping, CurrencyKey(row.currency), Num(1)))

\* np.where(currency == 'EUR', price,
\*          price / currency.map(lambda x: mapping.get(f"{x}EUR", 1)))
PriceEur(row, mapping) ==
    IF row.currency = EUR THEN row.price
    ELSE RatDiv(row.price,
                DictGet(mapping, CurrencyKey(row.currency), Num(1)))

\* the columns contract, price_eur and pnl added to the frame
AddColumns(df, contracts, mapping) ==
    [i \in 1..Len(df) |->
        LET p == PriceEur(df[i], mapping)
        IN  [contract  |-> contracts[i],
             price_eur |-> p,
             pnl       |-> RatMul(p, df[i].net_position)] @@ df[i]]

RECURSIVE SumSkipNa(_)
\* groupby 'sum': missing cells are skipped, an empty sum is 0
SumSkipNa(col) ==
    IF col = <<>> THEN Num(0)
    ELSE IF IsNaN(Head(col)) THEN SumSkipNa(Tail(col))
    ELSE RatAdd(Head(col), SumSkipNa(Tail(col)))

\* AggSum as the aggregation 'first'
AggFirst(col) == col[1]

\* 'sum' over one group's column
AggSum(col) == SumSkipNa(col)

\* the group keys of groupby(['contract', 'symbol', 'product_type']);
\* dropna=True leaves out the rows with a missing key cell
GroupKeys(df) ==
    {<<df[i].contract, df[i].symbol, df[i].product_type>> :
        i \in {j \in 1..Len(df) :
                 IsText(df[j].symbol) /\ IsText(df[j].product_type)}}

\* the rows of one group, in frame order
GroupRows(df, key) ==
    SelectSeq(df, LAMBDA r : <<r.contract, r.symbol, r.product_type>> = key)

Column(df, name) == [i \in 1..Len(df) |-> df[i][name]]

\* groupby(cols_groupby).agg(aggregation_dict).reset_index()
GroupByAgg(df) ==
    {LET g == GroupRows(df, key)
     IN  [contract     |-> key[1],
          symbol       |-> key[2],
          product_type |-> key[3],
          net_position |-> AggSum(Column(g, "net_position")),
          pnl          |-> AggSum(Column(g, "pnl")),
          price        |-> Column(g, "price"),
          price_eur    |-> Column(g, "price_eur")] : key \in GroupKeys(df)}

\* set_index('symbol_clearing')['symbol_trading'].to_dict(): the last row
\* of a clearing symbol wins
SymbolMapping(tbl) ==
    [k \in {tbl[i].symbol_clearing : i \in 1..Len(tbl)} |->
        tbl[CHOOSE i \in 1..Len(tbl) :
              /\ tbl[i].symbol_clearing = k
              /\ \A j \in 1..Len(tbl) :
                    tbl[j].symbol_clearing = k => j <= i].symbol_trading]

\* Series.map(dict): a key the dict lacks gives a missing cell
MapSymbol(df, symbol_mapping) ==
    [i \in 1..Len(df) |->
        [symbol |-> DictGet(symbol_mapping, df[i].symbol_underlying, NaNText)]
            @@ df[i]]

\* The value of a frame attribute of dfs: how far the helper that owns it
\* got (unset, coerced, contract, enriched, grouped) and its rows.
Frame(stage, rows) == [stage |-> stage, rows |-> rows]

Unset == Frame("unset", <<>>)

\* Lines 137-154 (desk) and 200-223 (clearing) on the copied frame `df`:
\* the frame left in dfs, the rate map and the exception, if any.
Enrich(df0) ==
    LET df        == ConvertColumnTypes(df0)
        contracts == ApplyCreateContract(df)
    IN  IF ~contracts.ok
        THEN [frame |-> Frame("coerced", df), mapping |-> <<>>,
              exc |-> contracts.exc]
        ELSE LET rates == _get_exchange_rate_to_eur(Column(df, "currency"))
             IN  IF ~rates.ok
                 THEN [frame   |-> Frame("contract",
                                         [i \in 1..Len(df) |->
                                            [contract |-> contracts.value[i]]
                                                @@ df[i]]),
                       mapping |-> <<>>, exc |-> rates.exc]
                 ELSE [frame   |-> Frame("enriched",
                                         AddColumns(df, contracts.value,
                                                    rates.value)),
                       mapping |-> rates.value, exc |-> "none"]

----------------------------------------------------------------------------
(* Position Comparator *)

\* a cell of a list-valued column after a join: the list, or missing
ListCell(l) == [missing |-> FALSE, list |-> l]

MissingCell == [missing |-> TRUE, list |-> <<>>]

\* the cols_join cells of a normalized row, and those of an unmatched side
JoinCells(r) ==
    [net_position |-> r.net_position, price |-> ListCell(r.price),
     price_eur |-> ListCell(r.price_eur), pnl |-> r.pnl]

UnmatchedCells ==
    [net_position |-> NaN, price |-> MissingCell,
     price_eur |-> MissingCell, pnl |-> NaN]

\* pd.concat([desk[cols_unique], clearing[cols_unique]]).drop_duplicates()
UniqueContracts(desk, clearing) ==
    {<<r.contract, r.product_type>> : r \in desk \cup clearing}

\* .join(table[cols_join].set_index('contract'), how='left') for one index
\* value: one result per matching row, or one with missing cells
LeftJoin(contract, table) ==
    IF \E r \in table : r.contract = contract
    THEN {JoinCells(r) : r \in {q \in table : q.contract = contract}}
    ELSE {UnmatchedCells}

\* NetPosDiff with a missing cell taken as equal to everything
NetPosDiffSkipNa(trading, clearing) ==
    ~IsNaN(trading) /\ ~IsNaN(clearing) /\ trading # clearing

\* Series != Series, elementwise: a missing cell differs from everything
NetPosDiff(trading, clearing) ==
    IsNaN(trading) \/ IsNaN(clearing) \/ trading # clearing

\* a Python value in the list handed to isin
PyNum(x) == [none |-> FALSE, num |-> x]

PyNone == [none |-> TRUE, num |-> NaN]

\* Series.isin(values) for one cell of a numeric column: the cells and the
\* values are compared as Python objects; nan matches nan, a number matches
\* an equal number, and no float (nan included) equals None
IsIn(x, values) ==
    \E i \in 1..Len(values) :
        /\ ~values[i].none
        /\ \/ IsNaN(x) /\ IsNaN(values[i].num)
           \/ ~IsNaN(x) /\ x = values[i].num

\* [0, None]
DropValues == <<PyNum(Num(0)), PyNone>>

\* one row of the joined frame with its flag (lines 253-257)
JoinedRow(u, t, c) ==
    [contract               |-> u[1],
     product_type           |-> u[2],
     net_position_trading   |-> t.net_position,
     price_trading          |-> t.price,
     price_eur_trading      |-> t.price_eur,
     pnl_trading            |-> t.pnl,
     net_position_clearing  |-> c.net_position,
     price_clearing         |-> c.price,
     price_eur_clearing     |-> c.price_eur,
     pnl_clearing           |-> c.pnl,
     is_net_pos_diff        |-> NetPosDiff(t.net_position, c.net_position)]

\* lines 251-257: every unique (contract, product_type) left-joined with
\* the desk rows and then with the clearing rows of its contract
JoinedRows(desk, clearing) ==
    UNION {UNION {{JoinedRow(u, t, c) : c \in LeftJoin(u[1], clearing)} :
                    t \in LeftJoin(u[1], desk)} :
             u \in UniqueContracts(desk, clearing)}

\* line 260: the rows kept by the ~(isin | isin) mask
DropZeroOrNone(rows) ==
    {r \in rows : ~(IsIn(r.net_position_trading, DropValues)
                    \/ IsIn(r.net_position_clearing, DropValues))}

----------------------------------------------------------------------------
(* Inputs *)

\* most rows of a raw table
MaxRows == 2

USD == <<"U","S","D">>

ABC == <<"A","B","C">>

\* empty option cells, and those of a call, strike 100, maturity 2024-01-19
NoOption == [maturity_date |-> NaT, put_call |-> NaNText, strike |-> NaN]

Call100 ==
    [maturity_date |-> [y |-> 2024, m |-> 1, d |-> 19, h |-> 0],
     put_call |-> <<"C">>, strike |-> Num(100)]

\* one row of the desk file
Row(symbol, currency, product_type, option, net_position, price) ==
    [symbol |-> symbol, currency |-> currency,
     product_type |-> product_type, maturity_date |-> option.maturity_date,
     put_call |-> option.put_call, strike |-> option.strike,
     net_position |-> Num(net_position), price |-> Num(price)]

StockRow(symbol, currency, net_position, price) ==
    Row(symbol, currency, ST, NoOption, net_position, price)

OptionRow(symbol, currency, net_position, price) ==
    Row(symbol, currency, OP, Call100, net_position, price)

\* the clearing file's row of the same holding: symbol_underlying for symbol
ClearingRow(r, symbol_underlying) ==
    [f \in (DOMAIN r \ {"symbol"}) \cup {"symbol_underlying"} |->
        IF f = "symbol_underlying" THEN symbol_underlying ELSE r[f]]

\* the clearing system's codes of the trading symbols
CodeOf(symbol) == symbol \o <<".","X">>

\* the non-empty tables of at most MaxRows rows over a set of rows
Tables(rows) == UNION {[1..n -> rows] : n \in 1..MaxRows}

Quote(date, close) == [date |-> date, close |-> Num(close)]

\* Stock holdings in two currencies, offsetting quantities and two
\* spellings of one symbol
StockRows ==
    {StockRow(ABC, USD, 1, 10), StockRow(ABC, USD, -1, 12),
     StockRow(ABC, EUR, 2, 7), StockRow(Lower(ABC), USD, 1, 10)}

\* a symbol-mapping table with every code of the clearing rows
FullMapping ==
    <<[symbol_clearing |-> CodeOf(ABC), symbol_trading |-> ABC],
      [symbol_clearing |-> CodeOf(Lower(ABC)), symbol_trading |-> Lower(ABC)]>>

\* provider data with a quote on the target date for every ticker
QuotedMarkets ==
    {(Ticker(USD) :> <<Quote(TARGET_DATE, 2)>>)
        @@ (Ticker(EUR) :> <<Quote(TARGET_DATE, 1)>>),
     (Ticker(USD) :> <<Quote(TARGET_DATE - 1, 5), Quote(TARGET_DATE, 3)>>)
        @@ (Ticker(EUR) :> <<Quote(TARGET_DATE, 4)>>)}

----------------------------------------------------------------------------
(* Operations *)

InitWith(markets) ==
    /\ pc = "start"
    /\ err = "none"
    /\ yf_data \in markets
    /\ raw_trades_desk = <<>>
    /\ position_clearing_raw = <<>>
    /\ mapping_symbol_raw = <<>>
    /\ mapping_exchange_rate = <<>>
    /\ position_desk = Unset
    /\ position_clearing = Unset
    /\ position_compared = Unset

\* read_csvs_from_directory: one frame per CSV file of the directory
read_csvs_from_directory(desk_tables, clearing_tables, mapping_tables) ==
    /\ pc = "start"
    /\ \E d \in desk_tables, c \in clearing_tables, m \in mapping_tables :
          /\ raw_trades_desk' = d
          /\ position_clearing_raw' = c
          /\ mapping_symbol_raw' = m
    /\ pc' = "loaded"
    /\ UNCHANGED <<err, yf_data, mapping_exchange_rate, position_desk,
                   position_clearing, position_compared>>

\* create_current_position_desk, lines 137-154
DeskEnrich ==
    /\ pc = "loaded"
    /\ LET res == Enrich(raw_trades_desk)
       IN  /\ position_desk' = res.frame
           /\ mapping_exchange_rate' = res.mapping
           /\ err' = res.exc
           /\ pc' = IF res.exc = "none" THEN "desk_enriched"
                    ELSE "desk_failed"
    /\ UNCHANGED <<yf_data, raw_trades_desk, position_clearing_raw,
                   mapping_symbol_raw, position_clearing, position_compared>>

\* create_current_position_desk, lines 156-172
DeskAggregate ==
    /\ pc = "desk_enriched"
    /\ position_desk' = Frame("grouped", GroupByAgg(position_desk.rows))
    /\ pc' = "desk_done"
    /\ UNCHANGED <<err, yf_data, raw_trades_desk, position_clearing_raw,
                   mapping_symbol_raw, mapping_exchange_rate,
                   position_clearing, position_compared>>

\* create_current_position_clearing, lines 200-223
ClearingEnrich ==
    /\ pc = "desk_done"
    /\ LET res == Enrich(MapSymbol(position_clearing_raw,
                                   SymbolMapping(mapping_symbol_raw)))
       IN  /\ position_clearing' = res.frame
           /\ mapping_exchange_rate' = res.mapping
           /\ err' = res.exc
           /\ pc' = IF res.exc = "none" THEN "clearing_enriched"
                    ELSE "clearing_failed"
    /\ UNCHANGED <<yf_data, raw_trades_desk, position_clearing_raw,
                   mapping_symbol_raw, position_desk, position_compared>>

\* create_current_position_clearing, lines 225-241
ClearingAggregate ==
    /\ pc = "clearing_enriched"
    /\ position_clearing' =
          Frame("grouped", GroupByAgg(position_clearing.rows))
    /\ pc' = "clearing_done"
    /\ UNCHANGED <<err, yf_data, raw_trades_desk, position_clearing_raw,
                   mapping_symbol_raw, mapping_exchange_rate, position_desk,
                   position_compared>>

\* create_current_position_compared
create_current_position_compared ==
    /\ pc = "clearing_done"
    /\ position_compared' =
          Frame("compared",
                DropZeroOrNone(JoinedRows(position_desk.rows,
                                          position_clearing.rows)))
    /\ pc' = "compared"
    /\ UNCHANGED <<err, yf_data, raw_trades_desk, position_clearing_raw,
                   mapping_symbol_raw, mapping_exchange_rate, position_desk,
                   position_clearing>>

\* the helpers in the order of the data flow: desk, clearing, comparison
Pipeline ==
    \/ DeskEnrich
    \/ DeskAggregate
    \/ ClearingEnrich
    \/ ClearingAggregate
    \/ create_current_position_compared

\* The pipeline over stock holdings with the provider quoting every ticker
\* on the target date.
Init == InitWith(QuotedMarkets)

ClearingStockRows == {ClearingRow(r, CodeOf(r.symbol)) : r \in StockRows}

ReadStockCsvs ==
    read_csvs_from_directory(Tables(StockRows), Tables(ClearingStockRows),
                             {FullMapping})

Next == ReadStockCsvs \/ Pipeline

Spec == Init /\ [][Next]_vars

----------------------------------------------------------------------------
(* The price conversion of lines 150-154 and 219-223 on its own: a frame  *)
(* of stock rows meets an arbitrary FX Rate Map, entries missing or not.  *)

\* most rows of a frame whose prices are converted
MaxPricedRows == 3

GBP == <<"G","B","P">>

PriceRows ==
    {StockRow(ABC, c, 3, p) : c \in {EUR, USD, GBP}, p \in {10, 7}}

\* the non-empty frames of at most MaxPricedRows rows
PriceFrames(rows) == UNION {[1..n -> rows] : n \in 1..MaxPricedRows}

\* every map from some of the keys to a rate
RateMaps ==
    UNION {[keys -> {Num(2), Num(4)}] :
             keys \in SUBSET {CurrencyKey(EUR), CurrencyKey(USD),
                              CurrencyKey(GBP)}}

\* lines 150-154 on a frame whose contract column is set
PriceDesk ==
    /\ pc = "start"
    /\ \E df \in PriceFrames(PriceRows), mapping \in RateMaps :
          /\ raw_trades_desk' = df
          /\ mapping_exchange_rate' = mapping
          /\ position_desk' =
                Frame("enriched",
                      AddColumns(ConvertColumnTypes(df),
                                 ApplyCreateContract(ConvertColumnTypes(df)).value,
                                 mapping))
    /\ pc' = "desk_enriched"
    /\ UNCHANGED <<err, yf_data, position_clearing_raw, mapping_symbol_raw,
                   position_clearing, position_compared>>

\* lines 219-223 on a frame whose symbol and contract columns are set
PriceClearing ==
    /\ pc = "start"
    /\ \E df \in PriceFrames({ClearingRow(r, CodeOf(r.symbol)) :
                                 r \in PriceRows}),
          mapping \in RateMaps :
          LET mapped == ConvertColumnTypes(
                            MapSymbol(df, SymbolMapping(FullMapping)))
          IN  /\ position_clearing_raw' = df
              /\ mapping_exchange_rate' = mapping
              /\ position_clearing' =
                    Frame("enriched",
                          AddColumns(mapped, ApplyCreateContract(mapped).value,
                                     mapping))
    /\ mapping_symbol_raw' = FullMapping
    /\ pc' = "clearing_enriched"
    /\ UNCHANGED <<err, yf_data, raw_trades_desk, position_desk,
                   position_compared>>

NextPrice == PriceDesk \/ PriceClearing

SpecPrice == InitWith(QuotedMarkets) /\ [][NextPrice]_vars

----------------------------------------------------------------------------
(* The pipeline over inputs that hold an option, an unsupported product   *)
(* type and an unmapped clearing symbol, with a provider that may have no *)
(* quote on the target date.                                              *)

FU == <<"F","U">>

XYZ == <<"X","Y","Z">>

MixedRows ==
    {StockRow(ABC, USD, 1, 10), StockRow(ABC, EUR, 2, 7),
     OptionRow(ABC, USD, 1, 10),
     Row(ABC, USD, FU, NoOption, 1, 10)}

ClearingMixedRows ==
    {ClearingRow(StockRow(ABC, USD, 1, 10), CodeOf(ABC)),
     ClearingRow(OptionRow(ABC, USD, 1, 10), CodeOf(ABC)),
     ClearingRow(StockRow(XYZ, USD, 1, 10), CodeOf(XYZ))}

\* the provider quotes USD on the target date, only the day before, or
\* not at all; EUR on the target date or not at all
AnyMarkets ==
    {(Ticker(USD) :> u) @@ (Ticker(EUR) :> e) :
        u \in {<<>>, <<Quote(TARGET_DATE - 1, 3)>>, <<Quote(TARGET_DATE, 2)>>},
        e \in {<<>>, <<Quote(TARGET_DATE, 1)>>}}

ReadMixedCsvs ==
    read_csvs_from_directory(Tables(MixedRows), Tables(ClearingMixedRows),
                             {FullMapping})

NextFaults == ReadMixedCsvs \/ Pipeline

SpecFaults == InitWith(AnyMarkets) /\ [][NextFaults]_vars

----------------------------------------------------------------------------
(* Properties *)

RECURSIVE SumSeq(_)
\* exact sum of a sequence of numbers
SumSeq(col) == IF col = <<>> THEN Num(0)
               ELSE RatAdd(Head(col), SumSeq(Tail(col)))

RECURSIVE SumField(_, _)
\* exact sum of one field over a set of rows
SumField(rows, name) ==
    IF rows = {} THEN Num(0)
    ELSE LET r == CHOOSE q \in rows : TRUE
         IN  RatAdd(r[name], SumField(rows \ {r}, name))

\* the conversion rule for the rows of one frame
PricedInEur(f) ==
    f.stage = "enriched" =>
        \A i \in 1..Len(f.rows) :
            LET r   == f.rows[i]
                key == r.currency \o <<"E","U","R">>
            IN  /\ r.currency = <<"E","U","R">> => r.price_eur = r.price
                /\ r.currency # <<"E","U","R">>
                     /\ key \in DOMAIN mapping_exchange_rate
                     => RatMul(r.price_eur, mapping_exchange_rate[key])
                           = r.price
                /\ r.currency # <<"E","U","R">>
                     /\ key \notin DOMAIN mapping_exchange_rate
                     => r.price_eur = r.price
                /\ r.currency = <<"U","S","D">> /\ r.price = Num(10)
                     /\ key \in DOMAIN mapping_exchange_rate
                     /\ mapping_exchange_rate[key] = Num(2)
                     => r.price_eur = Num(5)

\* C1: every row of an enriched frame, desk or clearing, has
\* price_eur = price when its currency is EUR, whatever the map holds;
\* otherwise price_eur times the map's rate for "{currency}EUR" is price,
\* and price_eur = price when the map has no such entry; 10 USD under
\* {USDEUR: 2} is 5 EUR.
C1_PriceEur == PricedInEur(position_desk) /\ PricedInEur(position_clearing)

\* C1 witness: a clearing frame with an EUR row under an EUREUR rate of 4,
\* a USD row of price 10 converted to 5 under a USDEUR rate of 2, and a GBP
\* row under a map with no GBPEUR entry.
C1_Witness ==
    /\ position_clearing.stage = "enriched"
    /\ \E i, j, k \in 1..Len(position_clearing.rows) :
          /\ position_clearing.rows[i].currency = EUR
          /\ CurrencyKey(EUR) \in DOMAIN mapping_exchange_rate
          /\ mapping_exchange_rate[CurrencyKey(EUR)] = Num(4)
          /\ position_clearing.rows[j].currency = USD
          /\ position_clearing.rows[j].price = Num(10)
          /\ CurrencyKey(USD) \in DOMAIN mapping_exchange_rate
          /\ mapping_exchange_rate[CurrencyKey(USD)] = Num(2)
          /\ position_clearing.rows[j].price_eur = Num(5)
          /\ position_clearing.rows[k].currency = GBP
          /\ CurrencyKey(GBP) \notin DOMAIN mapping_exchange_rate
          /\ position_clearing.rows[k].price_eur = Num(7)

\* what one aggregation step must preserve, per contract
Aggregated(before, after) ==
    /\ \A i \in 1..Len(before) : \E g \in after :
          g.contract = before[i].contract
    /\ \A c \in {g.contract : g \in after} :
          LET raw == SelectSeq(before, LAMBDA r : r.contract = c)
              agg == {g \in after : g.contract = c}
          IN  /\ SumField(agg, "pnl") =
                    SumSeq([i \in 1..Len(raw) |->
                              RatMul(raw[i].price_eur, raw[i].net_position)])
              /\ SumField(agg, "net_position") =
                    SumSeq([i \in 1..Len(raw) |-> raw[i].net_position])

\* C2: each aggregation step (desk, clearing) turns the row-level frame
\* into a table in which, per contract, the pnl sums to the sum of
\* price_eur * net_position and the net_position to the sum of
\* net_position over the rows of that contract, every row's contract
\* being kept.
C2_Aggregation ==
    [][/\ (pc = "desk_enriched" /\ pc' = "desk_done")
            => Aggregated(position_desk.rows, position_desk'.rows)
       /\ (pc = "clearing_enriched" /\ pc' = "clearing_done")
            => Aggregated(position_clearing.rows, position_clearing'.rows)
      ]_vars

\* C2 witness: a grouped clearing table (the desk one is grouped before
\* it) with a row that sums two USD rows of different prices.
C2_Witness ==
    /\ pc = "clearing_done"
    /\ \E g \in position_clearing.rows :
          /\ Len(g.price) = 2
          /\ g.price[1] # g.price[2]
          /\ g.price_eur[1] # g.price[1]
    /\ \E g \in position_desk.rows : Len(g.price) = 2

\* a net_position that is 0 or missing
ZeroOrNull(x) == x = Num(0) \/ x = NaN

\* C3: no row of position_compared has a desk-side or a clearing-side
\* net_position that is 0 or missing.
C3_NoZeroOrNull ==
    position_compared.stage = "compared" =>
        \A r \in position_compared.rows :
            /\ ~ZeroOrNull(r.net_position_trading)
            /\ ~ZeroOrNull(r.net_position_clearing)

\* C4: in every row of position_compared, is_net_pos_diff is true exactly
\* when the two net positions differ.
C4_DiffFlag ==
    position_compared.stage = "compared" =>
        \A r \in position_compared.rows :
            r.is_net_pos_diff
                <=> r.net_position_trading # r.net_position_clearing

\* C4 witness: one report with a contract held equally on both sides and
\* flagged false, and a contract held differently and flagged true.
C4_Witness ==
    /\ position_compared.stage = "compared"
    /\ \E r \in position_compared.rows :
          /\ ~r.is_net_pos_diff
          /\ r.net_position_trading = r.net_position_clearing
    /\ \E r \in position_compared.rows :
          /\ r.is_net_pos_diff
          /\ ~IsNaN(r.net_position_trading)
          /\ ~IsNaN(r.net_position_clearing)

\* the desk row d and the clearing row c (with its raw row c0) are one
\* instrument
SameInstrument(d, c, c0) ==
    /\ d.symbol = c.symbol
    /\ d.currency = c.currency
    /\ d.product_type = c.product_type
    /\ d.product_type = OP =>
          /\ d.maturity_date = c0.maturity_date
          /\ d.put_call = c.put_call
          /\ d.strike = c.strike

\* C5: once the clearing frame has its contract column, the identifier of
\* each of its rows is among the desk table's identifiers whenever the
\* desk file holds the same instrument.
C5_SameIdentifier ==
    pc = "clearing_enriched" =>
        \A j \in 1..Len(position_clearing.rows) :
            \A i \in 1..Len(raw_trades_desk) :
                SameInstrument(raw_trades_desk[i], position_clearing.rows[j],
                               position_clearing_raw[j])
                    => position_clearing.rows[j].contract
                          \in {g.contract : g \in position_desk.rows}

\* the desk normalizer got past the contract column
DeskReachedResolver ==
    /\ pc \in {"desk_failed", "desk_enriched"}
    /\ position_desk.stage \in {"contract", "enriched"}

\* C6: when the provider has no data for a currency of the desk file, the
\* desk normalizer does not fail: the map has no entry for that currency
\* and its rows get price_eur = price.
C6_EmptySeriesNotFatal ==
    \A i \in 1..Len(raw_trades_desk) :
        LET cur == raw_trades_desk[i].currency
        IN  DeskReachedResolver /\ yf_data[Ticker(cur)] = <<>>
                => /\ pc = "desk_enriched"
                   /\ CurrencyKey(cur) \notin DOMAIN mapping_exchange_rate
                   /\ position_desk.rows[i].price_eur
                         = position_desk.rows[i].price

\* C7: a desk file whose first row has a product type other than ST and OP
\* makes the desk normalizer fail with UnsupportedProductType.
C7_UnsupportedProductType ==
    /\ pc \notin {"start", "loaded"}
    /\ raw_trades_desk[1].product_type \notin {ST, OP}
    => pc = "desk_failed" /\ err = "UnsupportedProductType"

\* the quotes of a currency's series at or before the target date
QuotesUpTo(cur) ==
    SelectSeq(yf_data[Ticker(cur)], LAMBDA q : q.date <= TARGET_DATE)

\* C8: when every currency of the desk file has a quote at or before the
\* target date, the desk normalizer completes and the map holds, for each
\* currency, the close of the latest such quote.
C8_AsOfRate ==
    DeskReachedResolver
        /\ (\A i \in 1..Len(raw_trades_desk) :
               QuotesUpTo(raw_trades_desk[i].currency) # <<>>)
    => /\ pc = "desk_enriched"
       /\ \A i \in 1..Len(raw_trades_desk) :
             LET q == QuotesUpTo(raw_trades_desk[i].currency)
             IN  mapping_exchange_rate[CurrencyKey(raw_trades_desk[i].currency)]
                    = q[Len(q)].close

\* C9: a clearing file with a symbol_underlying the mapping table lacks
\* does not make the clearing normalizer fail; the row's symbol is missing.
C9_UnmappedSymbolNotFatal ==
    \A j \in 1..Len(position_clearing_raw) :
        /\ pc \in {"clearing_failed", "clearing_enriched"}
        /\ \A k \in 1..Len(mapping_symbol_raw) :
              mapping_symbol_raw[k].symbol_clearing
                 # position_clearing_raw[j].symbol_underlying
        => /\ pc = "clearing_enriched"
           /\ position_clearing.rows[j].symbol = NaNText

\* the rows of a grouped table have distinct contract identifiers
OneRowPerContract(f) ==
    f.stage = "grouped" =>
        \A g, h \in f.rows : g.contract = h.contract => g = h

\* C10: a grouped table, desk or clearing, has at most one row per
\* contract identifier.
C10_OneRowPerContract ==
    OneRowPerContract(position_desk) /\ OneRowPerContract(position_clearing)

====
